---- MODULE Spec2Model ----
(***************************************************************************)
(* VoxelLoader (src/src/VoxelLoader.js): configuration setters, the        *)
(* promise pipeline of loadFile / loadOctree, and generateMesh, the fold   *)
(* that turns the leaves of an octree into one merged box geometry.        *)
(*                                                                         *)
(* Lengths and coordinates are fixed-point numbers in thousandths          *)
(* (1000 = 1.0).  Centre positions and normalised colours are exact        *)
(* rationals <<numerator, denominator>> in lowest terms; the rounding      *)
(* error of the code's floating-point arithmetic is not modelled.          *)
(*                                                                         *)
(* The geometry library (three.js) is not part of the repository.  Its     *)
(* operations are modelled by what the code relies on: BoxGeometry is an   *)
(* indexed buffer geometry, translate moves every position, and            *)
(* mergeBufferGeometries concatenates the attributes of its arguments and  *)
(* returns null when they do not carry the same attributes.                *)
(***************************************************************************)
EXTENDS Integers, Sequences, FiniteSets, TLC

VARIABLES voxelSize, material, octree, gen, calls, jobs

vars == <<voxelSize, material, octree, gen, calls, jobs>>

(***************************************************************************)
(* Bounds of the model.                                                    *)
(***************************************************************************)
MaxLeaves == 3

(***************************************************************************)
(* Facts of the geometry library the code calls: a BoxGeometry has 6 faces *)
(* of 4 unshared vertices and 2 triangles each (36 indices).               *)
(***************************************************************************)
BoxVertexCount == 24
BoxIndexCount == 36
ColorScale == 255
DefaultVoxelSize == 1000

(***************************************************************************)
(* Exact arithmetic.                                                       *)
(***************************************************************************)
Abs(n) == IF n < 0 THEN -n ELSE n

RECURSIVE GCD(_, _)
GCD(a, b) == IF b = 0 THEN a ELSE GCD(b, a % b)

Rat(n, d) == LET g == GCD(Abs(n), d) IN <<n \div g, d \div g>>

RatAdd(p, q) == Rat(p[1] * q[2] + q[1] * p[2], p[2] * q[2])

RatNeg(p) == <<-p[1], p[2]>>

Zero == <<0, 1>>

Min2(a, b) == IF a < b THEN a ELSE b

Max2(a, b) == IF a > b THEN a ELSE b

(***************************************************************************)
(* Math.round(v * 100) / 100 on a value in thousandths: Math.round rounds  *)
(* to the nearest integer, halves towards +infinity.                       *)
(***************************************************************************)
Round1(t) == ((t + 50) \div 100) * 100

Round2(t) == ((t + 5) \div 10) * 10

(***************************************************************************)
(* Inputs: points, attribute records, leaves, octrees (an octree is the     *)
(* sequence of leaves its leaves() traversal yields).                       *)
(***************************************************************************)
Point(px, py, pz) == [x |-> px, y |-> py, z |-> pz]

PointPool == <<Point(0, 0, 0), Point(2000, -3000, 1004)>>

\* The point lists of the leaves: none, one, two and three points, with a
\* repeated point and a mean that is not a multiple of the unit.
PointLists ==
  {<<>>, <<PointPool[1]>>, <<PointPool[2]>>, <<PointPool[1], PointPool[2]>>,
   <<PointPool[2], PointPool[2]>>, <<PointPool[2], PointPool[1], PointPool[2]>>}

Colored(cr, cg, cb) == [hasColor |-> TRUE, color |-> [r |-> cr, g |-> cg, b |-> cb]]

NoColor == [hasColor |-> FALSE, color |-> [r |-> 0, g |-> 0, b |-> 0]]

Red == Colored(255, 0, 0)

Teal == Colored(0, 128, 64)

DataLists == {<<>>, <<Red>>, <<NoColor>>, <<Teal, Red>>, <<NoColor, Red>>}

Leaf(pts, recs) == [hasData |-> TRUE, points |-> pts, data |-> recs]

NullLeaf == [hasData |-> FALSE, points |-> <<>>, data |-> <<>>]

LeafA == Leaf(<<Point(0, 0, 0)>>, <<Red>>)

LeafB == Leaf(<<Point(0, 0, 0), Point(2000, 0, 0)>>, <<NoColor>>)

LeafPool ==
  {Leaf(pts, <<Red>>) : pts \in PointLists}
    \cup {Leaf(<<PointPool[2]>>, recs) : recs \in DataLists}
    \cup {LeafA, LeafB, NullLeaf}

RECURSIVE SeqsUpTo(_, _)
SeqsUpTo(S, n) ==
  IF n = 0 THEN {<<>>}
  ELSE LET shorter == SeqsUpTo(S, n - 1)
       IN shorter \cup {Append(s, e) : s \in {t \in shorter : Len(t) = n - 1}, e \in S}

Octrees == SeqsUpTo(LeafPool, MaxLeaves)

VoxelSizes == {DefaultVoxelSize, 250, 14, 0, -1000}

(***************************************************************************)
(* Geometry objects.  A geometry is a list of box parts (each the 24       *)
(* positions of one box, kept as its dimensions and its centre), the       *)
(* position and index counts, and the optional "color" attribute.          *)
(***************************************************************************)
NoAttribute == [present |-> FALSE, array |-> <<>>]

BoxGeometry(w, h, d) ==
  [parts |-> <<[width |-> w, height |-> h, depth |-> d,
                center |-> [x |-> Zero, y |-> Zero, z |-> Zero]]>>,
   positionCount |-> BoxVertexCount,
   indexCount |-> BoxIndexCount,
   color |-> NoAttribute]

EmptyGeometry ==
  [parts |-> <<>>, positionCount |-> 0, indexCount |-> 0, color |-> NoAttribute]

\* geometry.translate(x, y, z): every position of the geometry moves.
translate(g, v) ==
  [g EXCEPT !.parts =
     [k \in 1..Len(g.parts) |->
        [g.parts[k] EXCEPT !.center =
           [x |-> RatAdd(@.x, v.x), y |-> RatAdd(@.y, v.y), z |-> RatAdd(@.z, v.z)]]]]

negate(v) == [x |-> RatNeg(v.x), y |-> RatNeg(v.y), z |-> RatNeg(v.z)]

\* BufferGeometryUtils.mergeBufferGeometries([a, b]): a new geometry holding the
\* attributes of both, or null when the two do not carry the same attributes.
Compatible(a, b) == a.color.present = b.color.present

mergeBufferGeometries(a, b) ==
  [parts |-> a.parts \o b.parts,
   positionCount |-> a.positionCount + b.positionCount,
   indexCount |-> a.indexCount + b.indexCount,
   color |-> [present |-> a.color.present, array |-> a.color.array \o b.color.array]]

(***************************************************************************)
(* generateMesh, lines 93-146.                                             *)
(***************************************************************************)
\* leaf?.data?.points?.length
HasPoints(leaf) == leaf.hasData /\ Len(leaf.points) > 0

\* lines 100-114: the scan of the points (sum, minimum, maximum, and i).
RECURSIVE ScanPoints(_, _, _)
ScanPoints(pts, k, acc) ==
  IF k > Len(pts) THEN acc
  ELSE LET p == pts[k]
       IN ScanPoints(pts, k + 1,
            [pos |-> [x |-> acc.pos.x + p.x, y |-> acc.pos.y + p.y, z |-> acc.pos.z + p.z],
             min |-> [x |-> Min2(acc.min.x, p.x), y |-> Min2(acc.min.y, p.y),
                      z |-> Min2(acc.min.z, p.z)],
             max |-> [x |-> Max2(acc.max.x, p.x), y |-> Max2(acc.max.y, p.y),
                      z |-> Max2(acc.max.z, p.z)],
             i |-> k])

Scan(pts) ==
  ScanPoints(pts, 1, [pos |-> Point(0, 0, 0), min |-> pts[1], max |-> pts[1], i |-> 0])

\* lines 116-118: one dimension of the box.
BoxDimension(vs, lo, hi) == Round2(vs + (hi - lo))

\* line 121: pos.divideScalar(i)
divideScalar(v, n) == [x |-> Rat(v.x, n), y |-> Rat(v.y, n), z |-> Rat(v.z, n)]

\* lines 126-130: the colour attribute, one entry per position.
NormalizedColor(rgb) ==
  <<Rat(rgb.r, ColorScale), Rat(rgb.g, ColorScale), Rat(rgb.b, ColorScale)>>

ColorAttribute(count, rgb) ==
  [present |-> TRUE, array |-> [k \in 1..count |-> NormalizedColor(rgb)]]

\* lines 123-131: the first attribute record decides the colour.
LastRecord(leaf) == leaf.data[Len(leaf.data)]

FirstRecord(leaf) == leaf.data[1]

WithColor(g, leaf) ==
  IF FirstRecord(leaf).hasColor
  THEN [g EXCEPT !.color = ColorAttribute(g.positionCount, FirstRecord(leaf).color)]
  ELSE g

(***************************************************************************)
(* The state of one generateMesh call.  Geometries are objects: heap holds *)
(* them and a reference is an index into it, so that two names for one     *)
(* object (mergedGeometry and voxelGeometry) see each other's changes.     *)
(* mergedGeometry is Undefined before the first assignment, Null when the  *)
(* merge returned null, and a reference otherwise.                         *)
(***************************************************************************)
Undefined == 0

Null == 0 - 1

Falsy(ref) == ref = Undefined \/ ref = Null

LoopStart ==
  [heap |-> <<>>, mergedGeometry |-> Undefined, voxels |-> <<>>, leafOf |-> <<>>,
   thrown |-> FALSE]

MergeStepReplace(st, ref) == [st EXCEPT !.mergedGeometry = ref]

\* line 135: mergedGeometry = !mergedGeometry ? voxelGeometry : merge([...])
MergeStep(st, ref) ==
  IF Falsy(st.mergedGeometry)
  THEN [st EXCEPT !.mergedGeometry = ref]
  ELSE IF Compatible(st.heap[st.mergedGeometry], st.heap[ref])
       THEN [st EXCEPT
               !.heap = Append(@, mergeBufferGeometries(st.heap[st.mergedGeometry],
                                                        st.heap[ref])),
               !.mergedGeometry = Len(st.heap) + 1]
       ELSE [st EXCEPT !.mergedGeometry = Null]

\* lines 99-137: the body of the loop for the n-th leaf of the traversal.
LoopBody(st, leaf, n, vs) ==
  IF ~HasPoints(leaf) THEN st
  ELSE IF Len(leaf.data) = 0 THEN [st EXCEPT !.thrown = TRUE]
  ELSE
    LET s == Scan(leaf.points)
        width == BoxDimension(vs, s.min.x, s.max.x)
        height == BoxDimension(vs, s.min.y, s.max.y)
        depth == BoxDimension(vs, s.min.z, s.max.z)
        pos == divideScalar(s.pos, s.i)
        voxelGeometry == Len(st.heap) + 1
        created ==
          [st EXCEPT
             !.heap = Append(@, translate(WithColor(BoxGeometry(width, height, depth), leaf),
                                          pos)),
             !.voxels = Append(@, voxelGeometry),
             !.leafOf = Append(@, n)]
        merged == MergeStep(created, voxelGeometry)
    IN [merged EXCEPT !.heap[voxelGeometry] = translate(@, negate(pos))]

RECURSIVE Loop(_, _, _, _)
Loop(st, leaves, n, vs) ==
  IF n > Len(leaves) \/ st.thrown THEN st
  ELSE Loop(LoopBody(st, leaves[n], n, vs), leaves, n + 1, vs)

\* The value of generateMesh(oct): a mesh of the merged geometry and the
\* material, or the TypeError thrown at line 124 (no first attribute record) or
\* at line 140 (mergedGeometry undefined or null).  voxels are the per-leaf
\* voxelGeometry objects as the call leaves them, leafOf their leaves.
generateMesh(oct, vs, mat) ==
  LET st == Loop(LoopStart, oct, 1, vs)
      voxels == [k \in 1..Len(st.voxels) |-> st.heap[st.voxels[k]]]
      failed == st.thrown \/ Falsy(st.mergedGeometry)
  IN [kind |-> IF failed THEN "TypeError" ELSE "Mesh",
      line |-> IF st.thrown THEN 124 ELSE IF failed THEN 140 ELSE 0,
      geometry |-> IF failed THEN EmptyGeometry ELSE st.heap[st.mergedGeometry],
      material |-> mat,
      voxels |-> voxels,
      leafOf |-> st.leafOf]

(***************************************************************************)
(* The configuration setters, lines 36-52.                                 *)
(***************************************************************************)
VertexColors == "VertexColors"

DefaultMaterial == [name |-> "MeshPhongMaterial", color |-> "ffffff", vertexColors |-> "none"]

CustomMaterial == [name |-> "custom", color |-> "808080", vertexColors |-> "none"]

\* The material argument: a supplied material, or no argument.
CustomArg == [given |-> TRUE, value |-> CustomMaterial]

NoArg == [given |-> FALSE, value |-> DefaultMaterial]

MaterialArgs == {CustomArg, NoArg}

MaterialOf(arg) ==
  [(IF arg.given THEN arg.value ELSE DefaultMaterial) EXCEPT !.vertexColors = VertexColors]

\* gen: the direct generateMesh call under observation: its argument and what
\* it returned or threw.
NotCalled ==
  [called |-> FALSE, octree |-> <<>>, voxelSize |-> 0, result |-> generateMesh(<<>>, 0, DefaultMaterial)]

setVoxelMaterial(arg) ==
  /\ material' = MaterialOf(arg)
  /\ UNCHANGED <<voxelSize, octree, gen, calls, jobs>>

setVoxelSize(s) ==
  /\ voxelSize' = s
  /\ UNCHANGED <<material, octree, gen, calls, jobs>>

generateMeshCall(oct) ==
  /\ gen' = [called |-> TRUE, octree |-> oct, voxelSize |-> voxelSize,
             result |-> generateMesh(oct, voxelSize, material)]
  /\ UNCHANGED <<voxelSize, material, octree, calls, jobs>>

(***************************************************************************)
(* loadFile and loadOctree, lines 62-85.  A call of loadFile owns two      *)
(* promises: p1, returned by loadOctree and settled by the loader's        *)
(* callbacks, and p2, returned by then(...) and read by catch(...).        *)
(* Promise reactions run as jobs, first in first out.  The loaders are not *)
(* part of this file: one may call back at any time, also before loadFile  *)
(* has returned to its caller, so a job may still be queued when the       *)
(* caller's next statement or another loader's callback runs.              *)
(***************************************************************************)
CallIds == {1, 2}

Urls == {"a.vox", "b.vox", "empty.vox"}

\* What the loader decodes from each url.
OctreeOf(url) ==
  CASE url = "a.vox" -> <<LeafA, Leaf(<<PointPool[1], PointPool[2]>>, <<Red>>)>>
    [] url = "b.vox" -> <<Leaf(<<PointPool[2]>>, <<Teal, Red>>)>>
    [] OTHER -> <<NullLeaf>>

\* What a loader reports when the fetch or the decoding fails.
LoaderErrors == {"TransportError"}

\* The callbacks handed to loadFile: each is absent, returns, or throws.
CallbackSets ==
  {[onLoad |-> "returns", onError |-> "returns"],
   [onLoad |-> "throws", onError |-> "returns"],
   [onLoad |-> "none", onError |-> "none"]}

LoadSizes == {DefaultVoxelSize, 250}

NoMesh == generateMesh(<<>>, 0, DefaultMaterial)

NotStarted ==
  [p1 |-> "none", p1value |-> <<>>, p1reason |-> "", p2 |-> "none", p2reason |-> "",
   url |-> "", onLoad |-> "none", onError |-> "none",
   onLoadCalls |-> 0, onLoadArg |-> NoMesh, onErrorCalls |-> 0, onErrorArg |-> "",
   done |-> FALSE,
   atCall |-> [voxelSize |-> 0, material |-> DefaultMaterial]]

NoCalls == [c \in CallIds |-> NotStarted]

\* lines 62-68 and 71-80: loadFile calls loadOctree, whose executor starts the
\* loader, and chains then and catch on the promise.
loadFile(c, url, cbs) ==
  /\ calls[c].p1 = "none"
  /\ calls' = [calls EXCEPT ![c] =
       [@ EXCEPT !.p1 = "pending", !.p2 = "pending", !.url = url,
                 !.onLoad = cbs.onLoad, !.onError = cbs.onError,
                 !.atCall = [voxelSize |-> voxelSize, material |-> material]]]
  /\ UNCHANGED <<voxelSize, material, octree, gen, jobs>>

\* line 81: octree => resolve(scope.octree = octree)
loaderOnLoad(c) ==
  /\ calls[c].p1 = "pending"
  /\ octree' = OctreeOf(calls[c].url)
  /\ calls' = [calls EXCEPT ![c] =
       [@ EXCEPT !.p1 = "fulfilled", !.p1value = OctreeOf(calls[c].url)]]
  /\ jobs' = Append(jobs, <<c, "then">>)
  /\ UNCHANGED <<voxelSize, material, gen>>

\* line 83: error => reject(error)
loaderOnError(c, e) ==
  /\ calls[c].p1 = "pending"
  /\ calls' = [calls EXCEPT ![c] = [@ EXCEPT !.p1 = "rejected", !.p1reason = e]]
  /\ jobs' = Append(jobs, <<c, "then">>)
  /\ UNCHANGED <<voxelSize, material, octree, gen>>

\* The octree generateMesh is called on at line 66: the value p1 was
\* fulfilled with.
ThenOctreeShared(c) == octree

ThenOctree(c) == calls[c].p1value

\* line 66: octree => onLoad && onLoad(scope.generateMesh(octree)), and the
\* pass-through of a rejection of p1 to p2.
thenJob(c) ==
  /\ jobs # <<>> /\ Head(jobs) = <<c, "then">>
  /\ jobs' = Append(Tail(jobs), <<c, "catch">>)
  /\ LET mesh == generateMesh(ThenOctree(c), voxelSize, material)
     IN calls' = [calls EXCEPT ![c] =
          IF calls[c].p1 = "rejected"
          THEN [@ EXCEPT !.p2 = "rejected", !.p2reason = calls[c].p1reason]
          ELSE IF calls[c].onLoad = "none"
          THEN [@ EXCEPT !.p2 = "fulfilled"]
          ELSE IF mesh.kind # "Mesh"
          THEN [@ EXCEPT !.p2 = "rejected", !.p2reason = mesh.kind]
          ELSE IF calls[c].onLoad = "throws"
          THEN [@ EXCEPT !.onLoadCalls = @ + 1, !.onLoadArg = mesh,
                         !.p2 = "rejected", !.p2reason = "CallbackError"]
          ELSE [@ EXCEPT !.onLoadCalls = @ + 1, !.onLoadArg = mesh, !.p2 = "fulfilled"]]
  /\ UNCHANGED <<voxelSize, material, octree, gen>>

\* line 67: error => onError && onError(error)
catchJob(c) ==
  /\ jobs # <<>> /\ Head(jobs) = <<c, "catch">>
  /\ jobs' = Tail(jobs)
  /\ calls' = [calls EXCEPT ![c] =
       IF calls[c].p2 = "rejected" /\ calls[c].onError # "none"
       THEN [@ EXCEPT !.onErrorCalls = @ + 1, !.onErrorArg = calls[c].p2reason,
                      !.done = TRUE]
       ELSE [@ EXCEPT !.done = TRUE]]
  /\ UNCHANGED <<voxelSize, material, octree, gen>>

\* lines 18-29: the constructor.
Constructed ==
  /\ octree = <<>>
  /\ material = MaterialOf(NoArg)
  /\ voxelSize = DefaultVoxelSize
  /\ gen = NotCalled
  /\ calls = NoCalls
  /\ jobs = <<>>

(***************************************************************************)
(* SpecGen: a loader is constructed and configured, and generateMesh is    *)
(* called on an octree drawn from Octrees.                                 *)
(***************************************************************************)
NextGen ==
  \/ ~gen.called /\ \E s \in VoxelSizes : setVoxelSize(s)
  \/ ~gen.called /\ \E oct \in Octrees : generateMeshCall(oct)

SpecGen == Constructed /\ [][NextGen]_vars

(***************************************************************************)
(* SpecLoad: two loadFile calls on one loader overlap with each other and  *)
(* with the setters.  The second call starts once the first has started.   *)
(***************************************************************************)
NextLoad ==
  \/ \E s \in LoadSizes : setVoxelSize(s)
  \/ \E arg \in MaterialArgs : setVoxelMaterial(arg)
  \/ \E c \in CallIds, url \in Urls, cbs \in CallbackSets :
       (c = 1 \/ calls[1].p1 # "none") /\ loadFile(c, url, cbs)
  \/ \E c \in CallIds : loaderOnLoad(c)
  \/ \E c \in CallIds, e \in LoaderErrors : loaderOnError(c, e)
  \/ \E c \in CallIds : thenJob(c)
  \/ \E c \in CallIds : catchJob(c)

SpecLoad == Constructed /\ [][NextLoad]_vars

(***************************************************************************)
(* What the claims speak of, stated from the octree alone.                 *)
(***************************************************************************)
NonEmptyLeaves(oct) == {n \in 1..Len(oct) : oct[n].hasData /\ Len(oct[n].points) > 0}

RECURSIVE SumOf(_, _)
SumOf(pts, c) == IF pts = <<>> THEN 0 ELSE pts[1][c] + SumOf(Tail(pts), c)

Centroid(pts) ==
  [x |-> Rat(SumOf(pts, "x"), Len(pts)), y |-> Rat(SumOf(pts, "y"), Len(pts)),
   z |-> Rat(SumOf(pts, "z"), Len(pts))]

Triangles(g) == g.indexCount \div 3

\* Every non-empty leaf has a first attribute record, and they agree on
\* whether it carries a colour.
ColourAgreed(oct) ==
  /\ \A n \in NonEmptyLeaves(oct) : Len(oct[n].data) > 0
  /\ \A m, n \in NonEmptyLeaves(oct) : oct[m].data[1].hasColor = oct[n].data[1].hasColor

\* The leaf whose box is the j-th part of the returned geometry, and the leaf
\* of the k-th voxelGeometry the call built.
PartLeaf(j) ==
  gen.octree[gen.result.leafOf[Len(gen.result.leafOf) - Len(gen.result.geometry.parts) + j]]

VoxelLeaf(k) == gen.octree[gen.result.leafOf[k]]

ExpectedColor(rec) ==
  <<Rat(rec.color.r, 255), Rat(rec.color.g, 255), Rat(rec.color.b, 255)>>

C2_BoxesAtCentroid ==
  (gen.called /\ gen.result.kind = "Mesh") =>
    \A j \in 1..Len(gen.result.geometry.parts) :
      gen.result.geometry.parts[j].center = Centroid(PartLeaf(j).points)

\* C3: the box of a leaf whose first record carries a colour has that colour,
\* normalised, at every vertex; the box of a leaf whose first record carries
\* none has no colour attribute.  The same holds of the boxes in the mesh.
C3_FlatColourFromFirstRecord ==
  gen.called =>
    /\ \A k \in 1..Len(gen.result.voxels) :
         LET rec == VoxelLeaf(k).data[1]
             box == gen.result.voxels[k]
         IN IF rec.hasColor
            THEN /\ box.color.present
                 /\ Len(box.color.array) = 24
                 /\ \A v \in 1..24 : box.color.array[v] = ExpectedColor(rec)
            ELSE ~box.color.present
    /\ \A j \in 1..Len(gen.result.geometry.parts) :
         LET rec == PartLeaf(j).data[1]
         IN rec.hasColor =
              (/\ gen.result.geometry.color.present
               /\ \A v \in 1..24 :
                    gen.result.geometry.color.array[24 * (j - 1) + v] = ExpectedColor(rec))

C3_Witness ==
  /\ gen.called
  /\ gen.result.kind = "Mesh"
  /\ Len(gen.result.geometry.parts) = 2
  /\ PartLeaf(1).data = <<Teal, Red>>
  /\ PartLeaf(2).data = <<Red>>

\* C4: the example scenario.  Leaf A, one point (0,0,0), red; leaf B, points
\* (0,0,0) and (2,0,0), no colour; voxelSize 1.  The mesh holds both boxes, 24
\* triangles: 1x1x1 at (0,0,0), red, and 3x1x1 at (1,0,0).
C4_MixedColourExample ==
  (gen.called /\ gen.octree = <<LeafA, LeafB>> /\ gen.voxelSize = 1000) =>
    /\ gen.result.kind = "Mesh"
    /\ Triangles(gen.result.geometry) = 24
    /\ Len(gen.result.geometry.parts) = 2
    /\ gen.result.geometry.parts[1] =
         [width |-> 1000, height |-> 1000, depth |-> 1000,
          center |-> [x |-> Zero, y |-> Zero, z |-> Zero]]
    /\ gen.result.geometry.parts[2] =
         [width |-> 3000, height |-> 1000, depth |-> 1000,
          center |-> [x |-> <<1000, 1>>, y |-> Zero, z |-> Zero]]

\* C5: generateMesh on an octree without a non-empty leaf fails with an
\* EmptyResultError, a kind of its own.
C5_EmptyResultError ==
  (gen.called /\ NonEmptyLeaves(gen.octree) = {}) => gen.result.kind = "EmptyResultError"

\* C7: with a positive voxelSize every dimension of every box is at least
\* voxelSize, exactly voxelSize for a leaf of one point, and unchanged by
\* another rounding to two decimals.
DimensionsOf(box) == {box.parts[1].width, box.parts[1].height, box.parts[1].depth}

C7_DimensionsAtLeastVoxelSize ==
  (gen.called /\ gen.voxelSize > 0) =>
    \A k \in 1..Len(gen.result.voxels) :
      \A dim \in DimensionsOf(gen.result.voxels[k]) :
        /\ dim >= gen.voxelSize
        /\ Len(VoxelLeaf(k).points) = 1 => dim = gen.voxelSize
        /\ ((dim + 5) \div 10) * 10 = dim

\* C7 as amended: the same for a positive voxelSize that is a multiple of 0.01;
\* for every voxelSize a dimension is unchanged by another rounding.
C7_DimensionsAtLeastRoundedVoxelSize ==
  gen.called =>
    \A k \in 1..Len(gen.result.voxels) :
      \A dim \in DimensionsOf(gen.result.voxels[k]) :
        /\ (gen.voxelSize > 0 /\ gen.voxelSize % 10 = 0) =>
             /\ dim >= gen.voxelSize
             /\ Len(VoxelLeaf(k).points) = 1 => dim = gen.voxelSize
        /\ ((dim + 5) \div 10) * 10 = dim

C7_Witness ==
  /\ gen.called
  /\ gen.voxelSize = 250
  /\ Len(gen.result.voxels) = 2
  /\ Len(VoxelLeaf(1).points) = 1
  /\ DimensionsOf(gen.result.voxels[1]) = {250}
  /\ DimensionsOf(gen.result.voxels[2]) = {2250, 3250, 1250}

\* C8: the configured voxelSize is positive in every state, and no mesh is
\* generated from a voxelSize that is not.
C8_VoxelSizePositive == voxelSize > 0 /\ (gen.called => gen.voxelSize > 0)

\* C9: a non-empty leaf without attribute records is processed like one whose
\* first record has no colour: same outcome, same geometry.
AsNoColour(oct) ==
  [n \in 1..Len(oct) |->
     IF HasPoints(oct[n]) /\ oct[n].data = <<>> THEN [oct[n] EXCEPT !.data = <<NoColor>>]
     ELSE oct[n]]

C9_NoRecordLikeNoColour ==
  gen.called =>
    LET like == generateMesh(AsNoColour(gen.octree), gen.voxelSize, material)
    IN gen.result.kind = like.kind /\ gen.result.geometry = like.geometry

\* C6: a loadFile call given both callbacks has one outcome: never both
\* callbacks, each at most once, and once its chain has ended exactly one of
\* them; onError and only onError when the loader reported an error.
C6_SingleOutcome ==
  \A c \in CallIds :
    (calls[c].onLoad # "none" /\ calls[c].onError # "none") =>
      /\ calls[c].onLoadCalls <= 1 /\ calls[c].onErrorCalls <= 1
      /\ ~(calls[c].onLoadCalls = 1 /\ calls[c].onErrorCalls = 1)
      /\ calls[c].done => calls[c].onLoadCalls + calls[c].onErrorCalls = 1
      /\ (calls[c].done /\ calls[c].p1 = "rejected") =>
           calls[c].onErrorCalls = 1 /\ calls[c].onErrorArg = calls[c].p1reason

\* C10: the mesh delivered to a call's onLoad is built from the octree of the
\* call's own url and from the voxelSize and material configured when loadFile
\* was called.
C10_BuiltFromConfigAtCall ==
  \A c \in CallIds :
    calls[c].onLoadCalls > 0 =>
      calls[c].onLoadArg =
        generateMesh(OctreeOf(calls[c].url), calls[c].atCall.voxelSize,
                     calls[c].atCall.material)

\* C10 as amended: the mesh delivered to a call's onLoad is built from the
\* octree of the call's own url and from the voxelSize and material configured
\* at the step that generates it.
C10_BuiltFromConfigAtGeneration ==
  [][\A c \in CallIds :
       calls'[c].onLoadCalls > calls[c].onLoadCalls =>
         calls'[c].onLoadArg = generateMesh(OctreeOf(calls[c].url), voxelSize, material)]_vars

C10_Witness ==
  /\ calls[1].onLoadCalls = 1 /\ calls[2].onLoadCalls = 1
  /\ calls[1].url = "a.vox" /\ calls[2].url = "b.vox"
  /\ octree = OctreeOf("a.vox")
  /\ calls[2].atCall.voxelSize = 1000
  /\ calls[2].onLoadArg = generateMesh(OctreeOf("b.vox"), 250, MaterialOf(CustomArg))

====
